---------------------------- MODULE Spec2Model ----------------------------
(***************************************************************************)
(* A model of the S3 inventory scripts:                                    *)
(*   src/s3/all_details_bucket.py   per-bucket storage-class / prefix      *)
(*                                  aggregation, lifecycle matching,       *)
(*                                  ranking and workbook output            *)
(*   src/s3/all_s3_top.py           concurrent bucket sizing               *)
(*   src/s3/lifecycle_rules.py      lifecycle rule flattening              *)
(*                                                                         *)
(* Strings that the code takes apart (object keys, prefixes) are sequences *)
(* of one-character strings; Python dicts are functions whose DOMAIN is    *)
(* the set of keys present, with the insertion order kept beside them      *)
(* where the code iterates or sorts them.                                  *)
(*                                                                         *)
(* The module holds five specifications over one set of variables; each    *)
(* pins the variables of the other four:                                   *)
(*   Spec      aggregation, merge and ranking of all_details_bucket.main   *)
(*   LifeSpec  get_lifecycle_for_prefix / summarize_lifecycle_rules /      *)
(*             write_lifecycle_details_to_excel                            *)
(*   PageSpec  the pagination loops                                        *)
(*   MainSpec  all_details_bucket.main over a list of buckets              *)
(*   TopSpec   all_s3_top.main and its worker threads                      *)
(***************************************************************************)
EXTENDS Integers, Sequences, FiniteSets, TLC

VARIABLES
    \* ---- Spec: calculate_storage_class_data + merge + ranking
    records,                  \* the object records of the run (a fixed multiset)
    remaining,                \* indices of records no batch has carried yet
    storage_class_data,       \* main's local: result of the last batch
    prefix_details,           \* main's local: result of the last batch
    total_storage_class_data, \* main's accumulator
    all_prefix_details,       \* main's accumulator, [map, order]
    sorted_prefix_details,    \* main line 245
    top_prefix_details,       \* main line 246, as the list of (prefix, details)
    top_n,
    apc,
    \* ---- LifeSpec: the lifecycle rule functions
    lifecycle_policies,       \* the rules of the bucket, response['Rules']
    target_prefix,            \* the prefix the rules are matched against
    applicable_policies,      \* result of get_lifecycle_for_prefix
    lifecycle_summary,        \* result of summarize_lifecycle_rules
    lifecycle_rows,           \* rows of write_lifecycle_details_to_excel
    ldone,                    \* the functions that have run
    \* ---- PageSpec: one call of a pagination loop
    fn,                       \* the function that runs the loop
    continuation_token,
    requests,                 \* the token of every list_objects_v2 call made
    responses,                \* what every call answered
    objects,                  \* get_objects_data's accumulator
    prefixes,                 \* list_all_prefixes' accumulator
    size,                     \* get_bucket_size's accumulator
    returned,                 \* <<the value returned>>, <<>> before the return
    ppc,                      \* "request", "wait" (call in flight), "done"
    \* ---- MainSpec: all_details_bucket.main over bucket_names; it also
    \* uses main's locals declared above
    bucket_objects,           \* what each bucket holds (the listing source)
    bi,                       \* index in bucket_names of the bucket at work
    mpc,                      \* main's position in the loop body
    todo_prefixes,            \* prefixes the loop of line 227 has yet to take
    bucket_policy,
    workbooks,                \* the workbooks written, by bucket
    listing_failed,           \* buckets one of whose listing calls failed
    abort_cause,              \* the call whose exception left main
    \* ---- TopSpec: all_s3_top.main and the threads of its executor
    tpc,                      \* the main thread's position
    fstatus,                  \* each submitted unit: "pending", "client",
                              \*   "loop", "returned", "raised"
    fsize,                    \* get_bucket_size's local size, by unit
    fcalls,                   \* the list_objects_v2 calls a unit in its loop has made
    bucket_sizes,             \* main's dict, [map, order]
    collected,                \* the futures as_completed has yielded
    writers,                  \* the threads that have assigned into bucket_sizes
    sorted_buckets,
    top_buckets,
    excel_rows                \* the rows of all_bucket_sizes.xlsx

aggVars == <<records, remaining, storage_class_data, prefix_details,
             total_storage_class_data, all_prefix_details,
             sorted_prefix_details, top_prefix_details, top_n, apc>>

lifeVars == <<lifecycle_policies, target_prefix, applicable_policies,
              lifecycle_summary, lifecycle_rows, ldone>>

pageVars == <<fn, continuation_token, requests, responses, objects, prefixes,
              size, returned, ppc>>

mainVars == <<bucket_objects, bi, mpc, todo_prefixes, bucket_policy, workbooks,
              listing_failed, abort_cause>>

topVars == <<tpc, fstatus, fsize, fcalls, bucket_sizes, collected, writers,
             sorted_buckets, top_buckets, excel_rows>>

vars == <<aggVars, lifeVars, pageVars, mainVars, topVars>>

-----------------------------------------------------------------------------
(* Bounds of the model *)

MaxRecords == 3
MaxTopN == 4
MaxRules == 2
MaxRequests == 3
MaxBuckets == 2
TopBuckets == 3
MaxCalls == 2
ListingPageSize == 1

\* top_n of the script's own call of main
DefaultTopN == 30

-----------------------------------------------------------------------------
(* Generic helpers: dicts and sequences *)

\* the empty dict
EmptyDict == [x \in {} |-> 0]

\* d.get(k, dflt)
Get(d, k, dflt) == IF k \in DOMAIN d THEN d[k] ELSE dflt

\* d[k] = v
Put(d, k, v) == [x \in (DOMAIN d) \cup {k} |-> IF x = k THEN v ELSE d[x]]

\* defaultdict(int): d[k] += n
AddInt(d, k, n) == Put(d, k, Get(d, k, 0) + n)

RECURSIVE SumOver(_, _)
SumOver(f, S) ==
    IF S = {} THEN 0
    ELSE LET x == CHOOSE y \in S : TRUE IN f[x] + SumOver(f, S \ {x})

\* sum(d.values())
SumValues(d) == SumOver(d, DOMAIN d)

\* s[:-1]
DropLast(s) == IF Len(s) = 0 THEN <<>> ELSE SubSeq(s, 1, Len(s) - 1)

\* s[:n] for n >= 0
Take(s, n) == SubSeq(s, 1, IF n < Len(s) THEN n ELSE Len(s))

\* str.split('/'): the maximal '/'-free pieces, empty pieces included
RECURSIVE SplitFrom(_, _, _)
SplitFrom(s, i, cur) ==
    IF i > Len(s) THEN <<cur>>
    ELSE IF s[i] = "/" THEN <<cur>> \o SplitFrom(s, i + 1, <<>>)
    ELSE SplitFrom(s, i + 1, Append(cur, s[i]))

Split(s) == SplitFrom(s, 1, <<>>)

\* '/'.join(parts)
RECURSIVE Join(_)
Join(parts) ==
    IF Len(parts) = 0 THEN <<>>
    ELSE IF Len(parts) = 1 THEN parts[1]
    ELSE parts[1] \o <<"/">> \o Join(Tail(parts))

\* the elements of s at the indices I, in the order of s
RECURSIVE PickFrom(_, _, _)
PickFrom(s, I, i) ==
    IF i > Len(s) THEN <<>>
    ELSE (IF i \in I THEN <<s[i]>> ELSE <<>>) \o PickFrom(s, I, i + 1)

\* str.startswith
StartsWith(s, p) == Len(p) <= Len(s) /\ SubSeq(s, 1, Len(p)) = p

-----------------------------------------------------------------------------
(* Object records *)

\* the 'StorageClass' key is missing from the listing entry
NoClass == "<absent>"

KeySeq == << <<"f">>, <<"a", "/", "f">>, <<"a", "/", "b", "/", "f">> >>
SizeSeq == <<1, 2>>
ClassSeq == <<NoClass, "STANDARD", "GLACIER">>

PoolSize == Len(KeySeq) * Len(ClassSeq)

\* the i-th record of the pool: every key with every class, the sizes
\* alternating over them
PoolRecord(i) ==
    LET k == ((i - 1) % Len(KeySeq)) + 1
        c == ((i - 1) \div Len(KeySeq)) + 1
    IN [Key |-> KeySeq[k],
        Size |-> SizeSeq[((k + c) % Len(SizeSeq)) + 1],
        StorageClass |-> ClassSeq[c]]

\* the multisets of at most MaxRecords records, each as a sequence in pool order
RecordMultisets ==
    UNION { { [i \in 1..n |-> PoolRecord(ix[i])] :
              ix \in { f \in [1..n -> 1..PoolSize] :
                         \A i \in 1..n : i < n => f[i] <= f[i + 1] } } :
            n \in 0..MaxRecords }

-----------------------------------------------------------------------------
(* calculate_storage_class_data *)

\* the Prefix Resolver, line 121
PrefixPath(key) == Join(DropLast(Split(key))) \o <<"/">>

\* obj.get('StorageClass', 'STANDARD'), line 117
ClassOf(obj) ==
    IF obj.StorageClass = NoClass THEN "STANDARD" ELSE obj.StorageClass

\* defaultdict(lambda: {'TotalSize': 0, 'StorageClass': defaultdict(int)})
NewDetails == [TotalSize |-> 0, StorageClass |-> EmptyDict]

EmptyPrefixDict == [map |-> EmptyDict, order |-> <<>>]

\* pd[prefix]: the entry, created at the end of the insertion order if missing
Touch(pd, prefix) ==
    IF prefix \in DOMAIN pd.map THEN pd
    ELSE [map |-> Put(pd.map, prefix, NewDetails),
          order |-> Append(pd.order, prefix)]

\* lines 122-123
AddToPrefix(pd, prefix, storage_class, nbytes) ==
    LET t == Touch(pd, prefix)
        e == t.map[prefix]
    IN [t EXCEPT !.map = Put(t.map, prefix,
            [TotalSize |-> e.TotalSize + nbytes,
             StorageClass |-> AddInt(e.StorageClass, storage_class, nbytes)])]

\* the body of the loop, lines 117-123
CalcStep(acc, obj) ==
    [storage_class_data |->
        AddInt(acc.storage_class_data, ClassOf(obj), obj.Size),
     prefix_details |->
        AddToPrefix(acc.prefix_details, PrefixPath(obj.Key), ClassOf(obj),
                    obj.Size)]

RECURSIVE CalcFrom(_, _, _)
CalcFrom(acc, objs, i) ==
    IF i > Len(objs) THEN acc
    ELSE CalcFrom(CalcStep(acc, objs[i]), objs, i + 1)

calculate_storage_class_data(objs) ==
    CalcFrom([storage_class_data |-> EmptyDict,
              prefix_details |-> EmptyPrefixDict], objs, 1)

-----------------------------------------------------------------------------
(* The merge loops of main, lines 234-240 *)

\* a merge that assigns instead of adding (= for +=)
MergeClassesAssign(total, scd, S) ==
    [c \in (DOMAIN total) \cup S |-> IF c \in S THEN scd[c] ELSE total[c]]

\* lines 234-235
RECURSIVE MergeClasses(_, _, _)
MergeClasses(total, scd, S) ==
    IF S = {} THEN total
    ELSE LET c == CHOOSE x \in S : TRUE
         IN MergeClasses(AddInt(total, c, scd[c]), scd, S \ {c})

\* lines 239-240
RECURSIVE MergePrefixClasses(_, _, _)
MergePrefixClasses(cur, src, S) ==
    IF S = {} THEN cur
    ELSE LET c == CHOOSE x \in S : TRUE
         IN MergePrefixClasses(AddInt(cur, c, src[c]), src, S \ {c})

\* a merge that leaves line 238 out
MergeOnePrefixNoTotal(all, prefix, details) ==
    LET t == Touch(all, prefix)
        e == t.map[prefix]
    IN [t EXCEPT !.map = Put(t.map, prefix,
            [TotalSize |-> e.TotalSize,
             StorageClass |->
                MergePrefixClasses(e.StorageClass, details.StorageClass,
                                   DOMAIN details.StorageClass)])]

\* lines 238-240 for one prefix of the batch
MergeOnePrefix(all, prefix, details) ==
    LET t == Touch(all, prefix)
        e == t.map[prefix]
    IN [t EXCEPT !.map = Put(t.map, prefix,
            [TotalSize |-> e.TotalSize + details.TotalSize,
             StorageClass |->
                MergePrefixClasses(e.StorageClass, details.StorageClass,
                                   DOMAIN details.StorageClass)])]

\* lines 237-240, in the iteration order of the batch's dict
RECURSIVE MergePrefixes(_, _, _)
MergePrefixes(all, pd, i) ==
    IF i > Len(pd.order) THEN all
    ELSE MergePrefixes(MergeOnePrefix(all, pd.order[i], pd.map[pd.order[i]]),
                       pd, i + 1)

-----------------------------------------------------------------------------
(* Ranking, main lines 245-246 *)

\* list(d.items())
Items(pd) == [i \in 1..Len(pd.order) |-> <<pd.order[i], pd.map[pd.order[i]]>>]

\* sorted(..., key=TotalSize, reverse=True) is stable: an item goes after
\* every item already placed whose key is greater or equal
RECURSIVE InsertDesc(_, _, _)
InsertDesc(s, item, i) ==
    IF i > Len(s) THEN Append(s, item)
    ELSE IF s[i][2].TotalSize >= item[2].TotalSize
         THEN InsertDesc(s, item, i + 1)
         ELSE SubSeq(s, 1, i - 1) \o <<item>> \o SubSeq(s, i, Len(s))

RECURSIVE SortedFrom(_, _, _)
SortedFrom(acc, items, i) ==
    IF i > Len(items) THEN acc
    ELSE SortedFrom(InsertDesc(acc, items[i], 1), items, i + 1)

SortedDesc(items) == SortedFrom(<<>>, items, 1)

\* a slice that is off by one
TopSliceOffByOne(s, n) == Take(s, n + 1)

\* sorted_prefix_details[:top_n], top_n >= 0
TopSlice(s, n) == Take(s, n)

-----------------------------------------------------------------------------
(* Lifecycle rules *)

\* d1 | d2
Merge(d1, d2) ==
    [k \in (DOMAIN d1) \cup (DOMAIN d2) |->
        IF k \in DOMAIN d2 THEN d2[k] ELSE d1[k]]

\* the 'N/A' default where the column holds a prefix
NAPrefix == <<"N", "/", "A">>

\* The Filter part of a rule: no 'Filter' key, an empty filter, a simple
\* prefix, a composite of prefix and tags, a composite of tags alone, a tag
FilterSeq ==
    << EmptyDict,
       [Filter |-> EmptyDict],
       [Filter |-> [Prefix |-> <<>>]],
       [Filter |-> [Prefix |-> <<"a", "/">>]],
       [Filter |-> [Prefix |-> <<"a", "/", "b", "/">>]],
       [Filter |-> [And |-> [Prefix |-> <<"a", "/">>, Tags |-> "t"]]],
       [Filter |-> [And |-> [Prefix |-> <<"b", "/">>, Tags |-> "t"]]],
       [Filter |-> [And |-> [Tags |-> "t"]]],
       [Filter |-> [Tag |-> "t"]] >>

\* day counts are only copied by the code; they are carried as text
TransitionSeq ==
    << EmptyDict,
       [Transitions |-> <<>>],
       [Transitions |-> << [Days |-> "30", StorageClass |-> "STANDARD_IA"] >>],
       [Transitions |-> << [Days |-> "30", StorageClass |-> "STANDARD_IA"],
                           [Days |-> "90", StorageClass |-> "GLACIER"] >>],
       [Transitions |-> << [StorageClass |-> "GLACIER"] >>] >>

ExpirationSeq ==
    << EmptyDict,
       [Expiration |-> [Days |-> "365"]],
       [Expiration |-> [ExpiredObjectDeleteMarker |-> TRUE],
        NoncurrentVersionExpiration |-> [NoncurrentDays |-> "7"]] >>

RulePoolSize == Len(FilterSeq) * 2

\* the i-th rule of the pool: every filter shape twice, the transitions and
\* expirations cycling over them
PoolRule(i) ==
    Merge(Merge(Merge([ID |-> i, Status |-> "Enabled"],
                      FilterSeq[((i - 1) % Len(FilterSeq)) + 1]),
                TransitionSeq[((i - 1) % Len(TransitionSeq)) + 1]),
          ExpirationSeq[((i - 1) % Len(ExpirationSeq)) + 1])

RuleIndexSeqs == UNION { [1..n -> 1..RulePoolSize] : n \in 0..MaxRules }

TargetPrefixes ==
    { <<"/">>, <<"a", "/">>, <<"a", "/", "b", "/">>, <<"b", "/">> }

\* a match that compares the wrong way round
AppliesReversed(prefix, policy) ==
    IF "Filter" \in DOMAIN policy
    THEN LET filter == policy.Filter
         IN \/ "Prefix" \in DOMAIN filter /\ StartsWith(filter.Prefix, prefix)
            \/ /\ "And" \in DOMAIN filter
               /\ "Prefix" \in DOMAIN filter.And
               /\ StartsWith(filter.And.Prefix, prefix)
    ELSE TRUE

\* get_lifecycle_for_prefix, lines 175-183: is the policy appended
Applies(prefix, policy) ==
    IF "Filter" \in DOMAIN policy
    THEN LET filter == policy.Filter
         IN IF "Prefix" \in DOMAIN filter /\ StartsWith(prefix, filter.Prefix)
            THEN TRUE
            ELSE IF /\ "And" \in DOMAIN filter
                    /\ "Prefix" \in DOMAIN filter.And
                    /\ StartsWith(prefix, filter.And.Prefix)
                 THEN TRUE
                 ELSE FALSE
    ELSE TRUE

RECURSIVE LifecycleFrom(_, _, _, _)
LifecycleFrom(acc, prefix, policies, i) ==
    IF i > Len(policies) THEN acc
    ELSE LifecycleFrom(IF Applies(prefix, policies[i])
                       THEN Append(acc, policies[i]) ELSE acc,
                       prefix, policies, i + 1)

get_lifecycle_for_prefix(prefix, policies) ==
    LifecycleFrom(<<>>, prefix, policies, 1)

\* summarize_lifecycle_rules, lines 201-203: every transition overwrites the
\* two fields of the one rule_summary
RECURSIVE OverwriteTransitions(_, _, _)
OverwriteTransitions(rule_summary, transitions, i) ==
    IF i > Len(transitions) THEN rule_summary
    ELSE OverwriteTransitions(
            [rule_summary EXCEPT
                !.TransitionDays = Get(transitions[i], "Days", "N/A"),
                !.StorageClass = Get(transitions[i], "StorageClass", "N/A")],
            transitions, i + 1)

\* lines 189-207: the one row of a rule
RuleSummary(bucket_name, rule) ==
    LET r0 == [Bucket |-> bucket_name,
               ID |-> Get(rule, "ID", "N/A"),
               Prefix |-> Get(Get(rule, "Filter", EmptyDict), "Prefix", NAPrefix),
               Status |-> Get(rule, "Status", "N/A"),
               TransitionDays |-> "N/A",
               StorageClass |-> "N/A",
               ExpirationDays |-> "N/A",
               DeleteMarker |-> "No"]
        r1 == IF "Transitions" \in DOMAIN rule
              THEN OverwriteTransitions(r0, rule.Transitions, 1) ELSE r0
        r2 == IF "Expiration" \in DOMAIN rule
              THEN [r1 EXCEPT
                      !.ExpirationDays = Get(rule.Expiration, "Days", "N/A"),
                      !.DeleteMarker =
                          IF Get(rule.Expiration, "ExpiredObjectDeleteMarker", FALSE)
                          THEN "Yes" ELSE "No"]
              ELSE r1
    IN r2

\* summarize_lifecycle_rules: one append per rule, line 208
summarize_lifecycle_rules(bucket_name, rules) ==
    [i \in 1..Len(rules) |-> RuleSummary(bucket_name, rules[i])]

\* lifecycle_rules.py, parse_lifecycle_rule
parse_lifecycle_rule(rule) ==
    LET transitions == Get(rule, "Transitions", <<>>)
        expiration == Get(rule, "Expiration", EmptyDict)
        delete_marker == Get(rule, "NoncurrentVersionExpiration", EmptyDict)
    IN [transition_details |->
           [i \in 1..Len(transitions) |->
               [TransitionDays |-> Get(transitions[i], "Days", "N/A"),
                StorageClass |-> Get(transitions[i], "StorageClass", "N/A")]],
        expiration_days |-> Get(expiration, "Days", "N/A"),
        delete_marker_days |-> Get(delete_marker, "NoncurrentDays", "N/A")]

\* lifecycle_rules.py, lines 37-60: the rows of one rule
DetailRows(bucket_name, rule) ==
    LET p == parse_lifecycle_rule(rule)
        row(days, class) ==
            [Bucket |-> bucket_name,
             ID |-> Get(rule, "ID", "N/A"),
             Prefix |-> Get(Get(rule, "Filter", EmptyDict), "Prefix", NAPrefix),
             Status |-> Get(rule, "Status", "N/A"),
             TransitionDays |-> days,
             StorageClass |-> class,
             ExpirationDays |-> p.expiration_days,
             DeleteMarker |-> p.delete_marker_days]
    IN IF Len(p.transition_details) = 0
       THEN << row("N/A", "N/A") >>
       ELSE [i \in 1..Len(p.transition_details) |->
                row(p.transition_details[i].TransitionDays,
                    p.transition_details[i].StorageClass)]

\* lifecycle_rules.py, lines 35-60, for one bucket
RECURSIVE DetailRowsFrom(_, _, _, _)
DetailRowsFrom(rows, bucket_name, rules, i) ==
    IF i > Len(rules) THEN rows
    ELSE DetailRowsFrom(rows \o DetailRows(bucket_name, rules[i]),
                        bucket_name, rules, i + 1)

write_lifecycle_details_to_excel(bucket_name, rules) ==
    DetailRowsFrom(<<>>, bucket_name, rules, 1)

-----------------------------------------------------------------------------
(* The pagination loops: get_objects_data, list_all_prefixes (both in       *)
(* all_details_bucket.py) and get_bucket_size (all_s3_top.py)               *)

\* Python's None
None == "<None>"

\* `if continuation_token:` -- None and the empty string are false
Truthy(token) == token # None /\ token # ""

\* a loop that never passes the token on
NeverSendToken(token) == None

\* the ContinuationToken argument of the next call, lines 47-51 / 78-82 /
\* 23-27: None stands for the call without the argument
TokenSent(token) == IF Truthy(token) THEN token ELSE None

PagingFunctions == {"get_objects_data", "list_all_prefixes", "get_bucket_size"}

\* S3's continuation tokens are opaque, non-empty strings
Tokens == {"t1", "t2"}

\* what a page of list_objects_v2 can hold
ContentsParts ==
    { EmptyDict,
      [Contents |-> << [Key |-> <<"f">>, Size |-> 1] >>],
      [Contents |-> << [Key |-> <<"a", "/", "f">>, Size |-> 2],
                       [Key |-> <<"a", "/", "g">>, Size |-> 4] >>] }

CommonPrefixesParts ==
    { EmptyDict,
      [CommonPrefixes |-> << [Prefix |-> <<"a", "/">>] >>],
      [CommonPrefixes |-> << [Prefix |-> <<"a", "/">>],
                             [Prefix |-> <<"b", "/">>] >>] }

\* how a page can end: last page (with or without the IsTruncated key),
\* truncated with a token, truncated with the token missing
EndParts(more) ==
    { EmptyDict, [IsTruncated |-> FALSE] }
    \cup (IF more
          THEN { [IsTruncated |-> TRUE, NextContinuationToken |-> t] : t \in Tokens }
               \cup { [IsTruncated |-> TRUE] }
          ELSE {})

\* the answers of the listing source to one call: the call raises, or it
\* returns a page.  `more` is false once the source has to end the listing.
Answers(f, more) ==
    { [raised |-> TRUE] }
    \cup { Merge(Merge([raised |-> FALSE], c), e) :
             c \in (IF f = "list_all_prefixes" THEN CommonPrefixesParts
                    ELSE ContentsParts),
             e \in EndParts(more) }

\* response.get('Contents', [])
ContentsOf(response) == Get(response, "Contents", <<>>)

\* lines 54-55 of all_details_bucket.py
PrefixesOf(response) ==
    LET cp == Get(response, "CommonPrefixes", <<>>)
    IN { cp[i].Prefix : i \in 1..Len(cp) }

\* lines 35-36 of all_s3_top.py
RECURSIVE SizeFrom(_, _)
SizeFrom(contents, i) ==
    IF i > Len(contents) THEN 0
    ELSE contents[i].Size + SizeFrom(contents, i + 1)

SizeOf(response) == SizeFrom(ContentsOf(response), 1)

\* the loop goes round again: IsTruncated is true and the token is there
\* (a missing NextContinuationToken is a KeyError, caught by the except)
Continues(response) ==
    /\ ~response.raised
    /\ Get(response, "IsTruncated", FALSE)
    /\ "NextContinuationToken" \in DOMAIN response

-----------------------------------------------------------------------------
(* The listing source as all_details_bucket.main sees it.  A bucket holds   *)
(* some of the objects of BucketObjectSeq, which is in the key order S3     *)
(* lists in; a listing comes in pages of ListingPageSize entries.           *)

BucketObjectSeq ==
    << [Key |-> <<"a", "/", "b", "/", "f">>, Size |-> 1, StorageClass |-> "GLACIER"],
       [Key |-> <<"a", "/", "f">>, Size |-> 2, StorageClass |-> "STANDARD"],
       [Key |-> <<"b", "/", "g">>, Size |-> 4, StorageClass |-> "STANDARD"],
       [Key |-> <<"f">>, Size |-> 8, StorageClass |-> "STANDARD"] >>

\* the objects of a bucket holding the objects with indices I, in key order
ObjectsIn(I) == PickFrom(BucketObjectSeq, I, 1)

\* the key up to and with its first '/', or the key itself if it has none:
\* the entry list_objects_v2(Delimiter='/') rolls the key up to
RECURSIVE FirstSlash(_, _)
FirstSlash(key, i) ==
    IF i > Len(key) THEN 0
    ELSE IF key[i] = "/" THEN i ELSE FirstSlash(key, i + 1)

RollUp(key) ==
    IF FirstSlash(key, 1) = 0
    THEN [Contents |-> key]
    ELSE [CommonPrefixes |-> SubSeq(key, 1, FirstSlash(key, 1))]

\* the entries of a delimiter listing: each common prefix once
RECURSIVE DelimiterEntries(_, _, _)
DelimiterEntries(acc, objs, i) ==
    IF i > Len(objs) THEN acc
    ELSE LET e == RollUp(objs[i].Key)
         IN DelimiterEntries(IF Len(acc) > 0 /\ acc[Len(acc)] = e THEN acc
                             ELSE Append(acc, e), objs, i + 1)

\* the number of calls a complete listing of n entries takes
CallsFor(n) ==
    IF n = 0 THEN 1 ELSE (n + ListingPageSize - 1) \div ListingPageSize

\* the entries of the first k pages
FirstPages(entries, k) == Take(entries, k * ListingPageSize)

\* list_all_prefixes when its first `got` calls succeed: the common
\* prefixes of the pages received (lines 54-55); Contents are not read
list_all_prefixes(objs, got) ==
    LET pages == FirstPages(DelimiterEntries(<<>>, objs, 1), got)
    IN { pages[i].CommonPrefixes :
           i \in { j \in 1..Len(pages) : "CommonPrefixes" \in DOMAIN pages[j] } }

\* the objects list_objects_v2(Prefix=prefix) lists
RECURSIVE WithPrefix(_, _, _)
WithPrefix(objs, prefix, i) ==
    IF i > Len(objs) THEN <<>>
    ELSE (IF StartsWith(objs[i].Key, prefix) THEN <<objs[i]>> ELSE <<>>)
         \o WithPrefix(objs, prefix, i + 1)

\* get_objects_data when its first `got` calls succeed
get_objects_data(objs, prefix, got) ==
    FirstPages(WithPrefix(objs, prefix, 1), got)

\* the rules and the policy a bucket can be configured with
ConfiguredRules ==
    { << PoolRule(4) >>, << PoolRule(2), PoolRule(13) >> }

ConfiguredPolicies == { [Version |-> "2012-10-17"] }

\* get_lifecycle_policies / get_bucket_policy: what the call does with the
\* answer of S3 -- "ok", the 'NoSuch...' error code, any other error
CallOutcomes == {"ok", "NotConfigured", "OtherError"}

\* lines 34-38 / 23-27: is the exception raised again
Reraises(outcome) == outcome = "OtherError"

\* write_prefix_details_to_excel, lines 148-166: the rows (the size, cost
\* and policy text columns, which no other value depends on, left out)
PrefixRows(top, policies) ==
    UNION { { [Prefix |-> top[i][1],
               TotalSize |-> top[i][2].TotalSize,
               StorageClass |-> c,
               Size |-> top[i][2].StorageClass[c],
               Lifecycle |-> get_lifecycle_for_prefix(top[i][1], policies)] :
              c \in DOMAIN top[i][2].StorageClass } :
            i \in 1..Len(top) }

-----------------------------------------------------------------------------
(* all_s3_top.py *)

\* convert_bytes_to_gb_tb for sizes below 1024 GB (all that the model's
\* integers hold): f"{size / 1024**3:.2f} GB", the hundredths rounded half
\* to even as the format does on the exact quotient
GB == 1073741824

convert_bytes_to_gb_tb(nbytes) ==
    LET q == (nbytes * 100) \div GB
        r == (nbytes * 100) % GB
        h == IF 2 * r < GB THEN q
             ELSE IF 2 * r > GB THEN q + 1
             ELSE IF q % 2 = 0 THEN q ELSE q + 1
    IN [hundredths |-> h, unit |-> "GB"]

\* the bytes a page of the listing of bucket b adds up to
PageBytes(b) == {b}

\* sorted(bucket_sizes.items(), key=lambda item: item[1], reverse=True)
RECURSIVE InsertBySize(_, _, _)
InsertBySize(s, item, i) ==
    IF i > Len(s) THEN Append(s, item)
    ELSE IF s[i][2] >= item[2]
         THEN InsertBySize(s, item, i + 1)
         ELSE SubSeq(s, 1, i - 1) \o <<item>> \o SubSeq(s, i, Len(s))

RECURSIVE SortedBySizeFrom(_, _, _)
SortedBySizeFrom(acc, items, i) ==
    IF i > Len(items) THEN acc
    ELSE SortedBySizeFrom(InsertBySize(acc, items[i], 1), items, i + 1)

SortedBySize(items) == SortedBySizeFrom(<<>>, items, 1)

\* write_bucket_sizes_to_excel, line 52
SizeRows(bs) ==
    [i \in 1..Len(bs.order) |->
        [Bucket |-> bs.order[i],
         Size |-> convert_bytes_to_gb_tb(bs.map[bs.order[i]])]]

\* the threads of the executor: fewer than the units, so that units both
\* run side by side and wait for a free thread
MaxWorkers == TopBuckets - 1

\* the unit's thread is at work
Running(status) == status \in {"client", "loop"}

\* the unit has completed: get_bucket_size returned or raised
Completed(status) == status \in {"returned", "raised"}

\* a loop over the futures that stops at the first one
LoopOverAfterFirst(done) == done # {}

\* the loop of line 63 is over: as_completed has yielded every future
LoopOver(done) == done = 1..TopBuckets

-----------------------------------------------------------------------------
(* Spec: the aggregation run *)

\* the batches that can be drawn from the records not yet carried: any
\* non-empty subset, in any order
Batches(R) ==
    UNION { { s \in [1..n -> R] :
                \A i, j \in 1..n : i # j => s[i] # s[j] } :
            n \in 1..Cardinality(R) }

AggIdle ==
    /\ records = <<>>
    /\ remaining = {}
    /\ storage_class_data = EmptyDict
    /\ prefix_details = EmptyPrefixDict
    /\ total_storage_class_data = EmptyDict
    /\ all_prefix_details = EmptyPrefixDict
    /\ sorted_prefix_details = <<>>
    /\ top_prefix_details = <<>>
    /\ top_n = 0
    /\ apc = "idle"

LifeIdle ==
    /\ lifecycle_policies = <<>>
    /\ target_prefix = <<>>
    /\ applicable_policies = <<>>
    /\ lifecycle_summary = <<>>
    /\ lifecycle_rows = <<>>
    /\ ldone = {}

PageIdle ==
    /\ fn = "get_objects_data"
    /\ continuation_token = None
    /\ requests = <<>>
    /\ responses = <<>>
    /\ objects = <<>>
    /\ prefixes = {}
    /\ size = 0
    /\ returned = <<>>
    /\ ppc = "idle"

MainIdle ==
    /\ bucket_objects = <<>>
    /\ bi = 0
    /\ mpc = "idle"
    /\ todo_prefixes = {}
    /\ bucket_policy = EmptyDict
    /\ workbooks = EmptyDict
    /\ listing_failed = {}
    /\ abort_cause = None

TopIdle ==
    /\ tpc = "idle"
    /\ fstatus = <<>>
    /\ fsize = <<>>
    /\ fcalls = <<>>
    /\ bucket_sizes = EmptyPrefixDict
    /\ collected = {}
    /\ writers = {}
    /\ sorted_buckets = <<>>
    /\ top_buckets = <<>>
    /\ excel_rows = <<>>

Init ==
    /\ LifeIdle
    /\ PageIdle
    /\ MainIdle
    /\ TopIdle
    /\ records \in RecordMultisets
    /\ remaining = 1..Len(records)
    /\ storage_class_data = EmptyDict
    /\ prefix_details = EmptyPrefixDict
    /\ total_storage_class_data = EmptyDict
    /\ all_prefix_details = EmptyPrefixDict
    /\ sorted_prefix_details = <<>>
    /\ top_prefix_details = <<>>
    /\ top_n = 0
    /\ apc = "merge"

\* one iteration of the loop of main, lines 227-240, on one batch of objects
ProcessBatch ==
    /\ apc = "merge"
    /\ \E batch \in Batches(remaining) :
         LET objs == [i \in 1..Len(batch) |-> records[batch[i]]]
             res == calculate_storage_class_data(objs)
         IN /\ storage_class_data' = res.storage_class_data
            /\ prefix_details' = res.prefix_details
            /\ total_storage_class_data' =
                 MergeClasses(total_storage_class_data,
                              res.storage_class_data,
                              DOMAIN res.storage_class_data)
            /\ all_prefix_details' =
                 MergePrefixes(all_prefix_details, res.prefix_details, 1)
            /\ remaining' = remaining \ { batch[i] : i \in 1..Len(batch) }
    /\ UNCHANGED <<records, sorted_prefix_details, top_prefix_details, top_n,
                   apc>>
    /\ UNCHANGED <<lifeVars, pageVars, mainVars, topVars>>

\* lines 245-246
Rank ==
    /\ apc = "merge"
    /\ remaining = {}
    /\ \E n \in 0..MaxTopN :
         /\ top_n' = n
         /\ sorted_prefix_details' = SortedDesc(Items(all_prefix_details))
         /\ top_prefix_details' =
              TopSlice(SortedDesc(Items(all_prefix_details)), n)
    /\ apc' = "ranked"
    /\ UNCHANGED <<records, remaining, storage_class_data, prefix_details,
                   total_storage_class_data, all_prefix_details>>
    /\ UNCHANGED <<lifeVars, pageVars, mainVars, topVars>>

Next == ProcessBatch \/ Rank

Spec == Init /\ [][Next]_vars

-----------------------------------------------------------------------------
(* LifeSpec: the lifecycle rule functions on the rules of one bucket *)

LifeInit ==
    /\ AggIdle
    /\ PageIdle
    /\ MainIdle
    /\ TopIdle
    /\ \E ix \in RuleIndexSeqs :
         lifecycle_policies = [i \in 1..Len(ix) |-> PoolRule(ix[i])]
    /\ target_prefix \in TargetPrefixes
    /\ applicable_policies = <<>>
    /\ lifecycle_summary = <<>>
    /\ lifecycle_rows = <<>>
    /\ ldone = {}

\* all_details_bucket.py line 150
MatchPrefix ==
    /\ "match" \notin ldone
    /\ applicable_policies' =
         get_lifecycle_for_prefix(target_prefix, lifecycle_policies)
    /\ ldone' = ldone \cup {"match"}
    /\ UNCHANGED <<lifecycle_policies, target_prefix, lifecycle_summary,
                   lifecycle_rows>>
    /\ UNCHANGED <<aggVars, pageVars, mainVars, topVars>>

\* all_details_bucket.py line 224
Summarize ==
    /\ "summarize" \notin ldone
    /\ lifecycle_summary' = summarize_lifecycle_rules("bucket", lifecycle_policies)
    /\ ldone' = ldone \cup {"summarize"}
    /\ UNCHANGED <<lifecycle_policies, target_prefix, applicable_policies,
                   lifecycle_rows>>
    /\ UNCHANGED <<aggVars, pageVars, mainVars, topVars>>

\* lifecycle_rules.py line 82
WriteDetails ==
    /\ "details" \notin ldone
    /\ lifecycle_rows' =
         write_lifecycle_details_to_excel("bucket", lifecycle_policies)
    /\ ldone' = ldone \cup {"details"}
    /\ UNCHANGED <<lifecycle_policies, target_prefix, applicable_policies,
                   lifecycle_summary>>
    /\ UNCHANGED <<aggVars, pageVars, mainVars, topVars>>

LifeNext == MatchPrefix \/ Summarize \/ WriteDetails

LifeSpec == LifeInit /\ [][LifeNext]_vars

-----------------------------------------------------------------------------
(* PageSpec: one call of a pagination loop against a listing source that    *)
(* answers each call as it likes and ends the listing (last page or error)  *)
(* by the MaxRequests-th call at the latest                                 *)

PageInit ==
    /\ AggIdle
    /\ LifeIdle
    /\ MainIdle
    /\ TopIdle
    /\ fn \in PagingFunctions
    /\ continuation_token = None
    /\ requests = <<>>
    /\ responses = <<>>
    /\ objects = <<>>
    /\ prefixes = {}
    /\ size = 0
    /\ returned = <<>>
    /\ ppc = "request"

\* the call of list_objects_v2 at the top of the loop
SendRequest ==
    /\ ppc = "request"
    /\ requests' = Append(requests, TokenSent(continuation_token))
    /\ ppc' = "wait"
    /\ UNCHANGED <<fn, continuation_token, responses, objects, prefixes, size,
                   returned>>
    /\ UNCHANGED <<aggVars, lifeVars, mainVars, topVars>>

\* the value the function returns when the loop is left
ReturnValue(f, objs, pfx, sz) ==
    IF f = "get_objects_data" THEN objs
    ELSE IF f = "list_all_prefixes" THEN pfx
    ELSE sz

\* the call raises: the except clause breaks out of the loop
ReceiveError ==
    /\ ppc = "wait"
    /\ responses' = Append(responses, [raised |-> TRUE])
    /\ returned' = <<ReturnValue(fn, objects, prefixes, size)>>
    /\ ppc' = "done"
    /\ UNCHANGED <<fn, continuation_token, requests, objects, prefixes, size>>
    /\ UNCHANGED <<aggVars, lifeVars, mainVars, topVars>>

\* the call returns a page: the rest of the loop body
ReceivePage ==
    /\ ppc = "wait"
    /\ \E response \in Answers(fn, Len(requests) < MaxRequests) :
         /\ ~response.raised
         /\ responses' = Append(responses, response)
         /\ objects' = IF fn = "get_objects_data"
                       THEN objects \o ContentsOf(response) ELSE objects
         /\ prefixes' = IF fn = "list_all_prefixes"
                        THEN prefixes \cup PrefixesOf(response) ELSE prefixes
         /\ size' = IF fn = "get_bucket_size"
                    THEN size + SizeOf(response) ELSE size
         /\ IF Continues(response)
            THEN /\ continuation_token' = response.NextContinuationToken
                 /\ ppc' = "request"
                 /\ returned' = returned
            ELSE /\ continuation_token' = continuation_token
                 /\ ppc' = "done"
                 /\ returned' = <<ReturnValue(fn, objects', prefixes', size')>>
    /\ UNCHANGED <<fn, requests>>
    /\ UNCHANGED <<aggVars, lifeVars, mainVars, topVars>>

PageNext == SendRequest \/ ReceiveError \/ ReceivePage

PageSpec == PageInit /\ [][PageNext]_vars

\* the loop is sequential code: it takes its next step whenever it has one
PageLiveSpec == PageSpec /\ WF_vars(PageNext)

-----------------------------------------------------------------------------
(* MainSpec: all_details_bucket.main(bucket_names, top_n) over the buckets   *)
(* 1..MaxBuckets, as the script calls it                                    *)

bucket_names == [i \in 1..MaxBuckets |-> i]

\* main's locals that MainSpec does not pin
mainLocals == <<storage_class_data, prefix_details, total_storage_class_data,
                all_prefix_details, sorted_prefix_details, top_prefix_details,
                lifecycle_policies, lifecycle_summary>>

\* the variables MainSpec pins
mainPinned == <<records, remaining, top_n, apc, target_prefix,
                applicable_policies, lifecycle_rows, ldone, pageVars, topVars>>

MainInit ==
    /\ PageIdle
    /\ TopIdle
    /\ records = <<>>
    /\ remaining = {}
    /\ apc = "idle"
    /\ target_prefix = <<>>
    /\ applicable_policies = <<>>
    /\ lifecycle_rows = <<>>
    /\ ldone = {}
    /\ storage_class_data = EmptyDict
    /\ prefix_details = EmptyPrefixDict
    /\ total_storage_class_data = EmptyDict
    /\ all_prefix_details = EmptyPrefixDict
    /\ sorted_prefix_details = <<>>
    /\ top_prefix_details = <<>>
    /\ lifecycle_policies = <<>>
    /\ lifecycle_summary = <<>>
    /\ top_n = DefaultTopN
    /\ bucket_objects \in [1..MaxBuckets -> SUBSET (1..Len(BucketObjectSeq))]
    /\ bi = 1
    /\ mpc = "list"
    /\ todo_prefixes = {}
    /\ bucket_policy = EmptyDict
    /\ workbooks = EmptyDict
    /\ listing_failed = {}
    /\ abort_cause = None

\* lines 218-222: list_all_prefixes, whose listing may fail at any call, and
\* the fresh accumulators
ListPrefixes ==
    /\ mpc = "list"
    /\ LET objs == ObjectsIn(bucket_objects[bi])
           calls == CallsFor(Len(DelimiterEntries(<<>>, objs, 1)))
       IN \E got \in 0..calls :
            /\ todo_prefixes' = list_all_prefixes(objs, got)
            /\ listing_failed' = IF got < calls
                                 THEN listing_failed \cup {bucket_names[bi]}
                                 ELSE listing_failed
    /\ total_storage_class_data' = EmptyDict
    /\ all_prefix_details' = EmptyPrefixDict
    /\ mpc' = "lifecycle"
    /\ UNCHANGED <<storage_class_data, prefix_details, sorted_prefix_details,
                   top_prefix_details, lifecycle_policies, lifecycle_summary>>
    /\ UNCHANGED <<bucket_objects, bi, bucket_policy, workbooks, abort_cause>>
    /\ UNCHANGED mainPinned

\* lines 223-224: get_lifecycle_policies, then summarize_lifecycle_rules
GetLifecycle ==
    /\ mpc = "lifecycle"
    /\ \E outcome \in CallOutcomes :
         IF Reraises(outcome)
         THEN /\ mpc' = "aborted"
              /\ abort_cause' = "get_lifecycle_policies"
              /\ UNCHANGED <<lifecycle_policies, lifecycle_summary>>
         ELSE /\ \E rules \in (IF outcome = "ok" THEN ConfiguredRules ELSE {<<>>}) :
                   /\ lifecycle_policies' = rules
                   /\ lifecycle_summary' =
                        summarize_lifecycle_rules(bucket_names[bi], rules)
              /\ mpc' = "policy"
              /\ UNCHANGED abort_cause
    /\ UNCHANGED <<storage_class_data, prefix_details, total_storage_class_data,
                   all_prefix_details, sorted_prefix_details, top_prefix_details>>
    /\ UNCHANGED <<bucket_objects, bi, todo_prefixes, bucket_policy, workbooks,
                   listing_failed>>
    /\ UNCHANGED mainPinned

\* line 225: get_bucket_policy
GetPolicy ==
    /\ mpc = "policy"
    /\ \E outcome \in CallOutcomes :
         IF Reraises(outcome)
         THEN /\ mpc' = "aborted"
              /\ abort_cause' = "get_bucket_policy"
              /\ UNCHANGED bucket_policy
         ELSE /\ bucket_policy' \in
                   (IF outcome = "ok" THEN ConfiguredPolicies ELSE {EmptyDict})
              /\ mpc' = "objects"
              /\ UNCHANGED abort_cause
    /\ UNCHANGED mainLocals
    /\ UNCHANGED <<bucket_objects, bi, todo_prefixes, workbooks, listing_failed>>
    /\ UNCHANGED mainPinned

\* lines 227-240: one round of the loop over the prefixes, in the set's order
ProcessPrefix ==
    /\ mpc = "objects"
    /\ \E prefix \in todo_prefixes :
         LET objs == ObjectsIn(bucket_objects[bi])
             calls == CallsFor(Len(WithPrefix(objs, prefix, 1)))
         IN \E got \in 0..calls :
              LET res == calculate_storage_class_data(
                             get_objects_data(objs, prefix, got))
              IN /\ storage_class_data' = res.storage_class_data
                 /\ prefix_details' = res.prefix_details
                 /\ total_storage_class_data' =
                      MergeClasses(total_storage_class_data,
                                   res.storage_class_data,
                                   DOMAIN res.storage_class_data)
                 /\ all_prefix_details' =
                      MergePrefixes(all_prefix_details, res.prefix_details, 1)
                 /\ todo_prefixes' = todo_prefixes \ {prefix}
                 /\ listing_failed' = IF got < calls
                                      THEN listing_failed \cup {bucket_names[bi]}
                                      ELSE listing_failed
    /\ UNCHANGED <<sorted_prefix_details, top_prefix_details, lifecycle_policies,
                   lifecycle_summary>>
    /\ UNCHANGED <<bucket_objects, bi, mpc, bucket_policy, workbooks, abort_cause>>
    /\ UNCHANGED mainPinned

\* the loop over the prefixes is over
PrefixesDone ==
    /\ mpc = "objects"
    /\ todo_prefixes = {}
    /\ mpc' = "write"
    /\ UNCHANGED mainLocals
    /\ UNCHANGED <<bucket_objects, bi, todo_prefixes, bucket_policy, workbooks,
                   listing_failed, abort_cause>>
    /\ UNCHANGED mainPinned

\* lines 242-252: the workbook of the bucket.  With no prefix row the frame
\* of line 168 has no 'TotalSize (bytes)' column to sort by on line 169;
\* whether that sort raises is pandas' doing, so both outcomes are taken.
WriteWorkbook ==
    /\ mpc = "write"
    /\ LET sorted == SortedDesc(Items(all_prefix_details))
           top == TopSlice(sorted, top_n)
           rows == PrefixRows(top, lifecycle_policies)
       IN /\ sorted_prefix_details' = sorted
          /\ top_prefix_details' = top
          /\ \/ /\ workbooks' =
                     Put(workbooks, bucket_names[bi],
                         [StorageClassData |-> total_storage_class_data,
                          PrefixDetails |-> rows,
                          BucketPolicy |-> bucket_policy,
                          LifecycleRules |-> lifecycle_summary])
                /\ IF bi < Len(bucket_names)
                   THEN bi' = bi + 1 /\ mpc' = "list"
                   ELSE bi' = bi /\ mpc' = "done"
                /\ UNCHANGED abort_cause
             \/ /\ rows = {}
                /\ mpc' = "aborted"
                /\ abort_cause' = "sort_values"
                /\ UNCHANGED <<workbooks, bi>>
    /\ UNCHANGED <<storage_class_data, prefix_details, total_storage_class_data,
                   all_prefix_details, lifecycle_policies, lifecycle_summary>>
    /\ UNCHANGED <<bucket_objects, todo_prefixes, bucket_policy, listing_failed>>
    /\ UNCHANGED mainPinned

MainNext ==
    \/ ListPrefixes
    \/ GetLifecycle
    \/ GetPolicy
    \/ ProcessPrefix
    \/ PrefixesDone
    \/ WriteWorkbook

MainSpec == MainInit /\ [][MainNext]_vars

-----------------------------------------------------------------------------
(* TopSpec: all_s3_top.main(bucket_names, top_n) over the buckets           *)
(* 1..TopBuckets (list_buckets names each bucket once), on an executor of   *)
(* MaxWorkers threads                                                       *)

\* the variables TopSpec pins
topPinned == <<records, remaining, storage_class_data, prefix_details,
               total_storage_class_data, all_prefix_details,
               sorted_prefix_details, top_prefix_details, apc, lifeVars,
               pageVars, mainVars>>

TopInit ==
    /\ LifeIdle
    /\ PageIdle
    /\ MainIdle
    /\ records = <<>>
    /\ remaining = {}
    /\ storage_class_data = EmptyDict
    /\ prefix_details = EmptyPrefixDict
    /\ total_storage_class_data = EmptyDict
    /\ all_prefix_details = EmptyPrefixDict
    /\ sorted_prefix_details = <<>>
    /\ top_prefix_details = <<>>
    /\ apc = "idle"
    /\ top_n = 0
    /\ tpc = "submit"
    /\ fstatus = <<>>
    /\ fsize = <<>>
    /\ fcalls = <<>>
    /\ bucket_sizes = EmptyPrefixDict
    /\ collected = {}
    /\ writers = {}
    /\ sorted_buckets = <<>>
    /\ top_buckets = <<>>
    /\ excel_rows = <<>>

\* lines 60-62: every bucket submitted, bucket_sizes = {}
Submit ==
    /\ tpc = "submit"
    /\ fstatus' = [b \in 1..TopBuckets |-> "pending"]
    /\ fsize' = [b \in 1..TopBuckets |-> 0]
    /\ fcalls' = [b \in 1..TopBuckets |-> 0]
    /\ bucket_sizes' = EmptyPrefixDict
    /\ tpc' = "collect"
    /\ UNCHANGED <<collected, writers, sorted_buckets, top_buckets, excel_rows,
                   top_n>>
    /\ UNCHANGED topPinned

\* a free thread of the executor takes the oldest unit of the queue
WorkerStart(b) ==
    /\ tpc # "submit"
    /\ fstatus[b] = "pending"
    /\ \A c \in 1..(b - 1) : fstatus[c] # "pending"
    /\ Cardinality({ c \in 1..TopBuckets : Running(fstatus[c]) }) < MaxWorkers
    /\ fstatus' = [fstatus EXCEPT ![b] = "client"]
    /\ UNCHANGED <<tpc, fsize, fcalls, bucket_sizes, collected, writers,
                   sorted_buckets, top_buckets, excel_rows, top_n>>
    /\ UNCHANGED topPinned

\* get_bucket_size lines 15-19, outside the try: boto3.client makes the
\* client, or raises and the unit ends with the exception
WorkerClient(b) ==
    /\ tpc # "submit"
    /\ fstatus[b] = "client"
    /\ \E ok \in BOOLEAN :
         fstatus' = [fstatus EXCEPT ![b] = IF ok THEN "loop" ELSE "raised"]
    /\ UNCHANGED <<tpc, fsize, fcalls, bucket_sizes, collected, writers,
                   sorted_buckets, top_buckets, excel_rows, top_n>>
    /\ UNCHANGED topPinned

\* get_bucket_size lines 21-49, one round of the loop: the call raises (the
\* except breaks, the size so far is returned), or a page comes, the last
\* one or not
WorkerCall(b) ==
    /\ tpc # "submit"
    /\ fstatus[b] = "loop"
    /\ \/ /\ fstatus' = [fstatus EXCEPT ![b] = "returned"]
          /\ UNCHANGED fsize
       \/ \E n \in PageBytes(b), truncated \in BOOLEAN :
            /\ truncated => fcalls[b] + 1 < MaxCalls
            /\ fsize' = [fsize EXCEPT ![b] = @ + n]
            /\ fstatus' = [fstatus EXCEPT ![b] =
                              IF truncated THEN "loop" ELSE "returned"]
    /\ fcalls' = [fcalls EXCEPT ![b] = IF fstatus'[b] = "loop" THEN @ + 1 ELSE 0]
    /\ UNCHANGED <<tpc, bucket_sizes, collected, writers, sorted_buckets,
                   top_buckets, excel_rows, top_n>>
    /\ UNCHANGED topPinned

\* lines 63-69: as_completed yields a completed future; its result goes into
\* bucket_sizes, or its exception is printed
Collect(b) ==
    /\ tpc = "collect"
    /\ b \notin collected
    /\ Completed(fstatus[b])
    /\ collected' = collected \cup {b}
    /\ IF fstatus[b] = "returned"
       THEN /\ bucket_sizes' =
                 [map |-> Put(bucket_sizes.map, b, fsize[b]),
                  order |-> IF b \in DOMAIN bucket_sizes.map
                            THEN bucket_sizes.order
                            ELSE Append(bucket_sizes.order, b)]
            /\ writers' = writers \cup {"main"}
       ELSE UNCHANGED <<bucket_sizes, writers>>
    /\ UNCHANGED <<tpc, fstatus, fsize, fcalls, sorted_buckets, top_buckets,
                   excel_rows, top_n>>
    /\ UNCHANGED topPinned

\* the loop of line 63 ends and the with block is left: shutdown(wait=True)
\* returns once every unit has completed; then line 72
SortBuckets ==
    /\ tpc = "collect"
    /\ LoopOver(collected)
    /\ \A b \in 1..TopBuckets : Completed(fstatus[b])
    /\ sorted_buckets' = SortedBySize(Items(bucket_sizes))
    /\ tpc' = "write"
    /\ UNCHANGED <<fstatus, fsize, fcalls, bucket_sizes, collected, writers,
                   top_buckets, excel_rows, top_n>>
    /\ UNCHANGED topPinned

\* line 75
WriteSizes ==
    /\ tpc = "write"
    /\ excel_rows' = SizeRows(bucket_sizes)
    /\ tpc' = "print"
    /\ UNCHANGED <<fstatus, fsize, fcalls, bucket_sizes, collected, writers,
                   sorted_buckets, top_buckets, top_n>>
    /\ UNCHANGED topPinned

\* lines 78-81
PrintTop ==
    /\ tpc = "print"
    /\ \E n \in 0..MaxTopN :
         /\ top_n' = n
         /\ top_buckets' = Take(sorted_buckets, n)
    /\ tpc' = "done"
    /\ UNCHANGED <<fstatus, fsize, fcalls, bucket_sizes, collected, writers,
                   sorted_buckets, excel_rows>>
    /\ UNCHANGED topPinned

TopNext ==
    \/ Submit
    \/ \E b \in 1..TopBuckets : WorkerStart(b)
    \/ \E b \in 1..TopBuckets : WorkerClient(b)
    \/ \E b \in 1..TopBuckets : WorkerCall(b)
    \/ \E b \in 1..TopBuckets : Collect(b)
    \/ SortBuckets
    \/ WriteSizes
    \/ PrintTop

TopSpec == TopInit /\ [][TopNext]_vars

\* threads at work and the main thread keep running
TopLiveSpec == TopSpec /\ WF_vars(TopNext)

-----------------------------------------------------------------------------
(* Properties of the aggregation run *)

\* the storage classes a pair of aggregates mentions
ClassesIn(scd, pd) ==
    (DOMAIN scd) \cup UNION { DOMAIN pd.map[p].StorageClass : p \in DOMAIN pd.map }

PrefixClassBytes(pd, p, c) == Get(pd.map[p].StorageClass, c, 0)

ClassBytesOverPrefixes(pd, c) ==
    SumOver([p \in DOMAIN pd.map |-> PrefixClassBytes(pd, p, c)], DOMAIN pd.map)

TwoLevelConsistent(scd, pd) ==
    /\ \A p \in DOMAIN pd.map :
         pd.map[p].TotalSize = SumValues(pd.map[p].StorageClass)
    /\ \A c \in ClassesIn(scd, pd) :
         Get(scd, c, 0) = ClassBytesOverPrefixes(pd, c)
    /\ SumOver([p \in DOMAIN pd.map |-> pd.map[p].TotalSize], DOMAIN pd.map)
         = SumValues(scd)

\* C1: the result of every batch and the merged accumulators of main are
\* two-level consistent: every prefix's TotalSize is the sum of its per-class
\* bytes, every global class total is the sum of that class over all
\* prefixes, and the prefix totals add up to the global totals.
C1_TwoLevelConsistency ==
    /\ TwoLevelConsistent(storage_class_data, prefix_details)
    /\ TwoLevelConsistent(total_storage_class_data, all_prefix_details)

\* several batches merged, over more than one prefix and class
C1_Witness ==
    /\ remaining = {}
    /\ Len(records) = MaxRecords
    /\ storage_class_data # total_storage_class_data
    /\ Cardinality(DOMAIN all_prefix_details.map) >= 2
    /\ Cardinality(DOMAIN total_storage_class_data) >= 2
    /\ \E p \in DOMAIN all_prefix_details.map :
         Cardinality(DOMAIN all_prefix_details.map[p].StorageClass) >= 2

\* what the multiset of records alone determines
RecordIdx == 1..Len(records)
BytesWhere(I) == SumOver([i \in RecordIdx |-> records[i].Size], I)
ClassIs(i, c) ==
    (IF records[i].StorageClass = NoClass THEN "STANDARD"
     ELSE records[i].StorageClass) = c
ExpectedTotals ==
    [c \in { x \in {"STANDARD", "GLACIER"} : \E i \in RecordIdx : ClassIs(i, x) }
       |-> BytesWhere({ i \in RecordIdx : ClassIs(i, c) })]
ExpectedDetails ==
    [p \in { PrefixPath(records[i].Key) : i \in RecordIdx } |->
       LET I == { i \in RecordIdx : PrefixPath(records[i].Key) = p }
       IN [TotalSize |-> BytesWhere(I),
           StorageClass |->
             [c \in { x \in {"STANDARD", "GLACIER"} : \E i \in I : ClassIs(i, x) }
                |-> BytesWhere({ i \in I : ClassIs(i, c) })]]]

\* C2: once every record has been carried by some batch, whatever the
\* batches were and whatever the order of the batches and of the records in
\* them, the global totals and the per-prefix aggregates are the ones the
\* multiset of records determines.
C2_OrderPartitionIndependent ==
    remaining = {} =>
        /\ total_storage_class_data = ExpectedTotals
        /\ all_prefix_details.map = ExpectedDetails

\* the records went through more than one batch
C2_Witness ==
    /\ remaining = {}
    /\ Len(records) = MaxRecords
    /\ storage_class_data # total_storage_class_data
    /\ Cardinality(DOMAIN all_prefix_details.map) >= 2

Min(a, b) == IF a < b THEN a ELSE b

\* C7: the ranked selection has min(top_n, number of prefixes) entries, is
\* ordered by TotalSize non-increasing, holds entries of the aggregate map
\* (each prefix at most once), leaves out no prefix larger than one it
\* holds, and is empty when top_n is 0.
C7_TopNRanking ==
    apc = "ranked" =>
        LET top == top_prefix_details
            all == all_prefix_details.map
            chosen == { top[i][1] : i \in 1..Len(top) }
        IN /\ Len(top) = Min(top_n, Cardinality(DOMAIN all))
           /\ \A i \in 1..Len(top) :
                top[i][1] \in DOMAIN all /\ top[i][2] = all[top[i][1]]
           /\ \A i, j \in 1..Len(top) : i # j => top[i][1] # top[j][1]
           /\ \A i, j \in 1..Len(top) :
                i < j => top[i][2].TotalSize >= top[j][2].TotalSize
           /\ \A p \in chosen : \A q \in (DOMAIN all) \ chosen :
                all[p].TotalSize >= all[q].TotalSize
           /\ (top_n = 0 => top = <<>>)

\* a proper selection out of prefixes whose insertion order is not the
\* ranked order
C7_Witness ==
    /\ apc = "ranked"
    /\ top_n = 2
    /\ Len(sorted_prefix_details) = 3
    /\ Len(top_prefix_details) = 2
    /\ sorted_prefix_details # Items(all_prefix_details)
    /\ sorted_prefix_details[2][2].TotalSize > sorted_prefix_details[3][2].TotalSize

-----------------------------------------------------------------------------
(* Properties of the lifecycle rule functions *)

\* the rule carries a filter prefix, simple or inside a composite
HasFilterPrefix(rule) ==
    /\ "Filter" \in DOMAIN rule
    /\ \/ "Prefix" \in DOMAIN rule.Filter
       \/ "And" \in DOMAIN rule.Filter /\ "Prefix" \in DOMAIN rule.Filter.And

FilterPrefixOf(rule) ==
    IF "Prefix" \in DOMAIN rule.Filter THEN rule.Filter.Prefix
    ELSE rule.Filter.And.Prefix

\* p is s cut off after some number of characters
IsLiteralPrefix(p, s) == \E k \in 0..Len(s) : p = SubSeq(s, 1, k)

\* how often the rule of the pool with this ID occurs in a list of rules
Occurrences(rules, id) == Cardinality({ k \in 1..Len(rules) : rules[k].ID = id })

\* C3: get_lifecycle_for_prefix returns every rule that carries no filter
\* prefix (no Filter at all, or a Filter with neither a simple Prefix nor a
\* composite And.Prefix), whatever the target prefix.
C3_NoFilterPrefixMatchesAll ==
    "match" \in ldone =>
        \A i \in 1..Len(lifecycle_policies) :
            ~HasFilterPrefix(lifecycle_policies[i]) =>
                Occurrences(applicable_policies, lifecycle_policies[i].ID)
                    = Occurrences(lifecycle_policies, lifecycle_policies[i].ID)

\* C6: a rule that carries a filter prefix is returned if and only if that
\* prefix is a literal string-prefix of the target, tags being ignored; the
\* result is a subsequence of the input (input order, each occurrence at
\* most once), and a matched rule is returned as often as the input holds it.
C6_FilterPrefixMatch ==
    "match" \in ldone =>
        /\ \E I \in SUBSET (1..Len(lifecycle_policies)) :
              applicable_policies = PickFrom(lifecycle_policies, I, 1)
        /\ \A i \in 1..Len(lifecycle_policies) :
              LET rule == lifecycle_policies[i]
              IN HasFilterPrefix(rule) =>
                   Occurrences(applicable_policies, rule.ID) =
                     IF IsLiteralPrefix(FilterPrefixOf(rule), target_prefix)
                     THEN Occurrences(lifecycle_policies, rule.ID)
                     ELSE 0

\* a composite filter matched on its prefix, a simple filter that is no
\* prefix of the target left out
C6_Witness ==
    /\ "match" \in ldone
    /\ Len(lifecycle_policies) = 2
    /\ Len(applicable_policies) = 1
    /\ HasFilterPrefix(lifecycle_policies[1])
    /\ HasFilterPrefix(lifecycle_policies[2])
    /\ "And" \in DOMAIN applicable_policies[1].Filter
    /\ applicable_policies[1].ID = lifecycle_policies[2].ID
    /\ target_prefix = <<"b", "/">>

NumTransitions(rule) ==
    IF "Transitions" \in DOMAIN rule THEN Len(rule.Transitions) ELSE 0

Max(a, b) == IF a > b THEN a ELSE b

\* C9: the lifecycle summary of a bucket's workbook has max(1, number of
\* transitions) rows for every rule, and every transition of every rule is
\* in some row with its days and its storage class.
C9_RowPerTransition ==
    "summarize" \in ldone =>
        /\ Len(lifecycle_summary) =
             SumOver([i \in 1..Len(lifecycle_policies) |->
                         Max(1, NumTransitions(lifecycle_policies[i]))],
                     1..Len(lifecycle_policies))
        /\ \A i \in 1..Len(lifecycle_policies) :
             \A t \in 1..NumTransitions(lifecycle_policies[i]) :
               \E r \in 1..Len(lifecycle_summary) :
                 /\ lifecycle_summary[r].ID = lifecycle_policies[i].ID
                 /\ lifecycle_summary[r].TransitionDays =
                      Get(lifecycle_policies[i].Transitions[t], "Days", "N/A")
                 /\ lifecycle_summary[r].StorageClass =
                      Get(lifecycle_policies[i].Transitions[t], "StorageClass", "N/A")

-----------------------------------------------------------------------------
(* Properties of the pagination loops *)

\* the answer let the loop go on: a page, truncated, with its next token
IsContinuation(response) ==
    /\ ~response.raised
    /\ "IsTruncated" \in DOMAIN response
    /\ response.IsTruncated
    /\ "NextContinuationToken" \in DOMAIN response

\* the pages received, taken together
RECURSIVE AllContents(_, _)
AllContents(rs, i) ==
    IF i > Len(rs) THEN <<>>
    ELSE (IF rs[i].raised \/ "Contents" \notin DOMAIN rs[i] THEN <<>>
          ELSE rs[i].Contents) \o AllContents(rs, i + 1)

AllPrefixes(rs) ==
    { pr \in { <<"a", "/">>, <<"b", "/">> } :
        \E i \in 1..Len(rs) :
            /\ ~rs[i].raised
            /\ "CommonPrefixes" \in DOMAIN rs[i]
            /\ \E j \in 1..Len(rs[i].CommonPrefixes) :
                 rs[i].CommonPrefixes[j].Prefix = pr }

AllBytes(rs) ==
    LET c == AllContents(rs, 1)
    IN SumOver([i \in 1..Len(c) |-> c[i].Size], 1..Len(c))

PageProtocol ==
    /\ Len(responses) <= Len(requests)
    /\ Len(requests) <= Len(responses) + 1
    /\ Len(requests) >= 1 => requests[1] = None
    /\ \A k \in 2..Len(requests) :
         /\ IsContinuation(responses[k - 1])
         /\ requests[k] = responses[k - 1].NextContinuationToken
    /\ ppc = "done" =>
         /\ Len(requests) = Len(responses)
         /\ Len(responses) >= 1
         /\ ~IsContinuation(responses[Len(responses)])
         /\ Len(returned) = 1
         /\ fn = "get_objects_data" => returned[1] = AllContents(responses, 1)
         /\ fn = "list_all_prefixes" => returned[1] = AllPrefixes(responses)
         /\ fn = "get_bucket_size" => returned[1] = AllBytes(responses)
    /\ ppc # "done" =>
         \A k \in 1..Len(responses) : IsContinuation(responses[k])

\* C5: the first request carries no token; every later request carries the
\* next-token of the response just before it, which was a truncated page;
\* nothing is requested after a last page or a failed call; the value
\* returned is the accumulation of exactly the pages received; and the loop
\* ends, the listing source ending the listing with a last page or an error.
C5_PaginationProtocol == []PageProtocol /\ <>(ppc = "done")

\* a failure after two pages: both are kept
C5_Witness ==
    /\ ppc = "done"
    /\ fn = "get_objects_data"
    /\ Len(requests) = 3
    /\ requests[2] # None
    /\ responses[3].raised
    /\ Len(returned[1]) = 3

-----------------------------------------------------------------------------
(* Properties of all_details_bucket.main *)

\* C4: an error that a listing, lifecycle-configuration or bucket-policy
\* call returns for one bucket never ends the run: main is never left
\* through the exception of such a call, so that every bucket of the list
\* gets to its output step.
C4_FailureNeverAborts ==
    ~(/\ mpc = "aborted"
      /\ abort_cause \in {"list_all_prefixes", "get_objects_data",
                          "get_lifecycle_policies", "get_bucket_policy"}
      /\ \E b \in 1..MaxBuckets : b \notin DOMAIN workbooks)

\* what the objects of a bucket add up to, object by object
BucketIdx(b) == bucket_objects[b]
BucketBytes(I) == SumOver([i \in 1..Len(BucketObjectSeq) |-> BucketObjectSeq[i].Size], I)
BucketTotals(b) ==
    [c \in { BucketObjectSeq[i].StorageClass : i \in BucketIdx(b) } |->
        BucketBytes({ i \in BucketIdx(b) : BucketObjectSeq[i].StorageClass = c })]
BucketDetails(b) ==
    [p \in { PrefixPath(BucketObjectSeq[i].Key) : i \in BucketIdx(b) } |->
       LET I == { i \in BucketIdx(b) : PrefixPath(BucketObjectSeq[i].Key) = p }
       IN [TotalSize |-> BucketBytes(I),
           StorageClass |->
             [c \in { BucketObjectSeq[i].StorageClass : i \in I } |->
                BucketBytes({ i \in I : BucketObjectSeq[i].StorageClass = c })]]]

\* C10: when no listing call of the bucket failed, the totals and the prefix
\* aggregates that go into its workbook count every object of the bucket
\* exactly once, keys without a '/' included.
C10_ExactlyOnce ==
    (mpc = "write" /\ bucket_names[bi] \notin listing_failed) =>
        /\ total_storage_class_data = BucketTotals(bucket_names[bi])
        /\ all_prefix_details.map = BucketDetails(bucket_names[bi])

-----------------------------------------------------------------------------
(* Properties of all_s3_top.main *)

TopDownstream == tpc \in {"write", "print", "done"}

TopSafe ==
    /\ writers \subseteq {"main"}
    /\ TopDownstream =>
         /\ \A b \in 1..TopBuckets : Completed(fstatus[b])
         /\ DOMAIN bucket_sizes.map =
              { b \in 1..TopBuckets : fstatus[b] = "returned" }
         /\ Len(bucket_sizes.order) = Cardinality(DOMAIN bucket_sizes.map)
         /\ \A b \in DOMAIN bucket_sizes.map : bucket_sizes.map[b] = fsize[b]
    /\ tpc \in {"print", "done"} =>
         Len(excel_rows) = Cardinality({ b \in 1..TopBuckets : fstatus[b] = "returned" })

\* C8: only the main thread ever assigns into bucket_sizes; the sort, the
\* spreadsheet and the top-N print come only after every unit has returned
\* or raised; bucket_sizes then holds one entry, the unit's size, for every
\* bucket whose unit returned and none for one whose unit raised; and the
\* run gets there whatever units raise.
C8_ConcurrentSizing == []TopSafe /\ <>(tpc = "done")

\* one unit raised, the others returned and are in the spreadsheet
C8_Witness ==
    /\ tpc = "done"
    /\ fstatus[1] = "raised"
    /\ \A b \in 2..TopBuckets : fstatus[b] = "returned"
    /\ Len(excel_rows) = TopBuckets - 1
    /\ bucket_sizes.order[1] = TopBuckets

=============================================================================
